---- MODULE Spec2Model ----
(***************************************************************************)
(* A model of fractal_plot (src/src/main.rs): the Mandelbrot escape-time   *)
(* evaluator, the pixel-to-plane mapper, the band renderer and the         *)
(* parallel band scheduler of save_fractal.                                *)
(*                                                                         *)
(* f64 values are modelled as binary floating-point numbers with a         *)
(* Precision-bit significand and round-to-nearest-even after every         *)
(* operation (IEEE-754 binary64 has 53 bits; the exponent range is not     *)
(* bounded here, so overflow to infinity and subnormals are not modelled). *)
(* A float is a pair <<m, e>> standing for m * 2^e, kept in normal form:   *)
(* <<0, 0>>, or 2^(Precision-1) <= |m| < 2^Precision.                      *)
(***************************************************************************)
EXTENDS Integers, Sequences, FiniteSets, TLC

VARIABLES
    bounds,       \* (width, height) of the image, parsed from args[2]
    upper_left,   \* the window's corners, parsed from args[3] and args[4]
    lower_right,
    threads,      \* num_cpus::get()
    pixels,       \* the pixel buffer, row-major, one byte per pixel
    allocated,    \* the buffer as it was before any render wrote to it
    pc,           \* where the main thread is: spawn, write, done, panicked
    spawned,      \* how many bands the for loop has spawned a task for
    tasks,        \* the band tasks spawned so far, in band order
    image,        \* what write_image has read: <<>> until it ran
    writers,      \* history: per buffer index, the tasks that assigned it
    escapes,      \* history: per buffer index, the escape time last computed
    points        \* history: per buffer index, the plane point last mapped

vars == <<bounds, upper_left, lower_right, threads, pixels, allocated, pc,
          spawned, tasks, image, writers, escapes, points>>

\* ------------------------------------------------------------------ bounds
Precision == 10
MaxWidth == 2
MaxHeight == 4
MaxThreads == 2

\* --------------------------------------------------------- f64 arithmetic
Abs(n) == IF n < 0 THEN -n ELSE n

Sgn(n) == IF n < 0 THEN -1 ELSE IF n = 0 THEN 0 ELSE 1

Min(a, b) == IF a < b THEN a ELSE b

\* The number of bits of n >= 0, searched in lo .. hi (n < 2^hi).
RECURSIVE BitLenIn(_, _, _)
BitLenIn(n, lo, hi) ==
    IF lo = hi THEN lo
    ELSE LET mid == (lo + hi) \div 2
         IN  IF n < 2 ^ mid THEN BitLenIn(n, lo, mid) ELSE BitLenIn(n, mid + 1, hi)

BitLen(n) == BitLenIn(n, 0, 30)

\* The exact dyadic m * 2^e rounded to Precision bits, ties to even, in
\* normal form: <<0, 0>>, or a significand of exactly Precision bits.
RoundP(m, e) ==
    LET a == Abs(m)
        n == BitLen(a)
    IN  IF m = 0 THEN <<0, 0>>
        ELSE IF n <= Precision THEN <<m * 2 ^ (Precision - n), e - (Precision - n)>>
        ELSE LET s  == n - Precision
                 d  == 2 ^ s
                 q  == a \div d
                 r  == a % d
                 h  == d \div 2
                 q1 == IF r > h \/ (r = h /\ q % 2 = 1) THEN q + 1 ELSE q
             IN  IF q1 = 2 ^ Precision
                 THEN <<Sgn(m) * (q1 \div 2), e + s + 1>>
                 ELSE <<Sgn(m) * q1, e + s>>

FNeg(a) == <<-a[1], a[2]>>

FMul(a, b) == RoundP(a[1] * b[1], a[2] + b[2])

\* One past the position of the leading bit of a nonzero a.
Top(a) == a[2] + Precision

FAdd(a, b) ==
    IF a[1] = 0 THEN b
    ELSE IF b[1] = 0 THEN a
    ELSE IF Top(b) < Top(a) - Precision - 2 THEN a
    ELSE IF Top(a) < Top(b) - Precision - 2 THEN b
    ELSE LET e == Min(a[2], b[2])
         IN  RoundP(a[1] * 2 ^ (a[2] - e) + b[1] * 2 ^ (b[2] - e), e)

FSub(a, b) == FAdd(a, FNeg(b))

\* a / b for b # 0: the quotient to Precision + 2 bits and a sticky bit,
\* then rounded.
FDiv(a, b) ==
    IF a[1] = 0 THEN <<0, 0>>
    ELSE LET ma  == Abs(a[1])
             mb  == Abs(b[1])
             k   == Precision + 2
             num == ma * 2 ^ k
             q   == num \div mb
             r   == num % mb
             st  == IF r = 0 THEN 0 ELSE 1
         IN  RoundP(Sgn(a[1]) * Sgn(b[1]) * (2 * q + st), a[2] - b[2] - k - 1)

\* `n as f64`
IntToF(n) == RoundP(n, 0)

\* a > b on floats: the sign of the rounded difference is the exact one.
FGt(a, b) == FSub(a, b)[1] > 0

Four == RoundP(4, 0)

\* a^2 + b^2 > t * 2^(4 - 2 * Precision), exactly, for floats 0 <= a, b <= 4:
\* each square is cut to the exponent 4 - 2 * Precision with a sticky bit.
SumSqGt(a, b, t) ==
    LET E0 == 4 - 2 * Precision
        Sq(v) ==
            LET m2 == v[1] * v[1]
                sh == 2 * v[2] - E0
            IN  IF sh >= 0 THEN <<m2 * 2 ^ sh, 0>>
                ELSE IF -sh > 2 * Precision + 1
                     THEN <<0, IF m2 = 0 THEN 0 ELSE 1>>
                ELSE <<m2 \div 2 ^ (-sh), IF m2 % 2 ^ (-sh) = 0 THEN 0 ELSE 1>>
        sa == Sq(a)
        sb == Sq(b)
        s  == sa[1] + sb[1]
    IN  s > t \/ (s = t /\ sa[2] + sb[2] > 0)

FAbs(a) == <<Abs(a[1]), a[2]>>

\* f64::hypot(a, b) > 4.0, hypot taken as correctly rounded: the root rounds
\* to more than 4 iff a^2 + b^2 > (4 + half an ulp of 4)^2.
HypotGt4(a, b) ==
    IF FGt(FAbs(a), Four) \/ FGt(FAbs(b), Four) THEN TRUE
    ELSE SumSqGt(FAbs(a), FAbs(b), (2 ^ Precision + 1) * (2 ^ Precision + 1))

\* ------------------------------------------------------- complex numbers
\* num::Complex<f64>: a pair <<re, im>> of floats.
CZero == <<<<0, 0>>, <<0, 0>>>>

\* Complex::mul: re = a.re*b.re - a.im*b.im, im = a.re*b.im + a.im*b.re
CMul(a, b) ==
    <<FSub(FMul(a[1], b[1]), FMul(a[2], b[2])),
      FAdd(FMul(a[1], b[2]), FMul(a[2], b[1]))>>

CAdd(a, b) == <<FAdd(a[1], b[1]), FAdd(a[2], b[2])>>

\* Complex::norm(): the modulus, re.hypot(im), tested against 4.0
NormGt4(z) == HypotGt4(z[1], z[2])

\* ----------------------------------------------------------- escape time
None == -1

\* Iterations i .. stop - 1 of the loop body: <<z, Some(i) or None>>.
RECURSIVE EscapeBlock(_, _, _, _)
EscapeBlock(z, c, i, stop) ==
    IF i >= stop THEN <<z, None>>
    ELSE LET z1 == CAdd(CMul(z, z), c)
         IN  IF NormGt4(z1) THEN <<z1, i>> ELSE EscapeBlock(z1, c, i + 1, stop)

\* for i in 0 .. limit, run in blocks of 16 iterations (the blocks only bound
\* the depth of evaluation; the iterations are those of the loop).
RECURSIVE EscapeLoop(_, _, _, _)
EscapeLoop(z, c, i, limit) ==
    IF i >= limit THEN None
    ELSE LET r == EscapeBlock(z, c, i, Min(i + 16, limit))
         IN  IF r[2] # None THEN r[2]
             ELSE EscapeLoop(r[1], c, i + 16, limit)

\* calculate_escape_time(c, limit): Some(i) is i, None is -1.
calculate_escape_time(c, limit) == EscapeLoop(CZero, c, 0, limit)

\* ------------------------------------------------------------ the mapper
\* The mapper with the two bounds taken for one another.
pixel_to_point_swapped(bnds, pixel, ul, lr) ==
    LET width  == FSub(lr[1], ul[1])
        height == FSub(ul[2], lr[2])
    IN  <<FAdd(ul[1], FDiv(FMul(IntToF(pixel[1]), width), IntToF(bnds[2]))),
          FSub(ul[2], FDiv(FMul(IntToF(pixel[2]), height), IntToF(bnds[1])))>>

\* pixel_to_point(bounds, pixel, upper_left, lower_right)
pixel_to_point(bnds, pixel, ul, lr) ==
    LET width  == FSub(lr[1], ul[1])
        height == FSub(ul[2], lr[2])
    IN  <<FAdd(ul[1], FDiv(FMul(IntToF(pixel[1]), width), IntToF(bnds[1]))),
          FSub(ul[2], FDiv(FMul(IntToF(pixel[2]), height), IntToF(bnds[2])))>>

\* ----------------------------------------------------------- the inputs
\* f64::from_str of the decimal n / 10: the float nearest to it.
Dec(n) == FDiv(IntToF(n), IntToF(10))

\* The plane windows tried, each <<upper_left, lower_right>>:
\* -2.0,1.5 .. -1.0,1.0; -2.0,2.0 .. 2.0,-2.0; -2.5,0.3 .. -2.0,0.1
Windows ==
    { <<<<Dec(-20), Dec(15)>>, <<Dec(-10), Dec(10)>>>>,
      <<<<Dec(-20), Dec(20)>>, <<Dec(20), Dec(-20)>>>>,
      <<<<Dec(-25), Dec(3)>>, <<Dec(-20), Dec(1)>>>> }

ImageBounds == (1 .. MaxWidth) \X (0 .. MaxHeight)

ThreadCounts == (1 .. MaxThreads) \cup {8}

\* ----------------------------------------------------- the band geometry
\* The band height rounded up instead: ceil(bounds.1 / threads).
RowsPerBandCeil(bnds, nthreads) == (bnds[2] + nthreads - 1) \div nthreads

\* let rows_per_band = bounds.1 / threads + 1
RowsPerBand(bnds, nthreads) == bnds[2] \div nthreads + 1

\* The chunk size taken from the height: rows_per_band * bounds.1.
ChunkLenByHeight(rpb, bnds) == rpb * bnds[2]

\* the chunk size handed to chunks_mut: rows_per_band * bounds.0
ChunkLen(rpb, bnds) == rpb * bnds[1]

\* pixels.chunks_mut(size): how many chunks a buffer of len elements gives
\* (chunks_mut panics on a size of 0, which bounds.0 >= 1 rules out).
NumChunks(len, size) == IF size = 0 THEN 0 ELSE (len + size - 1) \div size

\* Chunks that take one element of the chunk after them.
ChunkInclusive(len, size, i) == <<i * size, Min(size + 1, len - i * size)>>

\* chunk i (from 0) of chunks_mut(size): <<first index, length>>; every chunk
\* has size elements but the last, which has what is left.
Chunk(len, size, i) == <<i * size, Min(size, len - i * size)>>

NumBands(bnds, nthreads) ==
    NumChunks(bnds[1] * bnds[2], ChunkLen(RowsPerBand(bnds, nthreads), bnds))

\* The for loop body giving every band rows_per_band rows, the last too.
BandTaskFullHeight(bnds, ul, lr, nthreads, i) ==
    LET rows_per_band == RowsPerBand(bnds, nthreads)
        band   == Chunk(bnds[1] * bnds[2], ChunkLen(rows_per_band, bnds), i)
        top    == rows_per_band * i
        height == rows_per_band
    IN  [ state       |-> "spawned",
          lo          |-> band[1],
          len         |-> band[2],
          bounds      |-> <<bnds[1], height>>,
          upper_left  |-> pixel_to_point(bnds, <<0, top>>, ul, lr),
          lower_right |-> pixel_to_point(bnds, <<bnds[1], top + height>>, ul, lr),
          row         |-> 0,
          column      |-> 0 ]

\* The body of the for loop for band i (from 0): the task it spawns.
BandTask(bnds, ul, lr, nthreads, i) ==
    LET rows_per_band == RowsPerBand(bnds, nthreads)
        band   == Chunk(bnds[1] * bnds[2], ChunkLen(rows_per_band, bnds), i)
        top    == rows_per_band * i
        height == band[2] \div bnds[1]
    IN  [ state       |-> "spawned",
          lo          |-> band[1],
          len         |-> band[2],
          bounds      |-> <<bnds[1], height>>,
          upper_left  |-> pixel_to_point(bnds, <<0, top>>, ul, lr),
          lower_right |-> pixel_to_point(bnds, <<bnds[1], top + height>>, ul, lr),
          row         |-> 0,
          column      |-> 0 ]

\* ------------------------------------------------------------ the render
Limit == 255

\* Every (bounds, upper_left, lower_right) a render can be called with: the
\* whole image of each input, and each band save_fractal cuts from it.
RenderCalls ==
    UNION { {<<b, w[1], w[2]>>}
            \cup UNION { { LET t == BandTask(b, w[1], w[2], n, i)
                           IN  <<t.bounds, t.upper_left, t.lower_right>> :
                           i \in 0 .. NumBands(b, n) - 1 } :
                         n \in ThreadCounts } :
            b \in {bb \in ImageBounds : bb[2] > 0}, w \in Windows }

PlanePoints ==
    UNION { { pixel_to_point(c[1], <<col, r>>, c[2], c[3]) :
              col \in 0 .. c[1][1] - 1, r \in 0 .. c[1][2] - 1 } :
            c \in {cc \in RenderCalls : cc[1][2] > 0} }

\* calculate_escape_time(point, 255) for every point a render maps a pixel to
\* (tabulated once; the value is that of the call).
EscapeTimes == [p \in PlanePoints |-> calculate_escape_time(p, Limit)]

\* The byte without the inversion: count as u8.
PixelByteNotInverted(count) == IF count = None THEN 0 ELSE count % 256

\* match .. { None => 0, Some(count) => 255 - count as u8 } on u8
PixelByte(count) ==
    IF count = None THEN 0 ELSE (255 - (count % 256)) % 256

\* pixels[row * bounds.0 + column]: the index render assigns for (column, row)
PixelIndex(bnds, r, col) == r * bnds[1] + col

\* render without its assertion.
LenNotAsserted(len, bnds) == TRUE

\* assert_eq!(pixels.len(), bounds.0 * bounds.1)
LenAsserted(len, bnds) == len = bnds[1] * bnds[2]

\* render(pixels, bounds, upper_left, lower_right) as a function: the buffer
\* a single call over the whole image leaves.
RenderWhole(bnds, ul, lr) ==
    [k \in 1 .. bnds[1] * bnds[2] |->
        PixelByte(EscapeTimes[pixel_to_point(
            bnds, <<(k - 1) % bnds[1], (k - 1) \div bnds[1]>>, ul, lr)])]

\* ------------------------------------------------------ the state machine
Blank(len, v) == [k \in 1 .. len |-> v]

\* save_fractal up to the scope: the arguments parsed, the buffer allocated
\* and zeroed, nothing spawned yet.
Init ==
    \E b \in ImageBounds, w \in Windows, n \in ThreadCounts :
        /\ bounds = b
        /\ upper_left = w[1]
        /\ lower_right = w[2]
        /\ threads = n
        /\ pixels = Blank(b[1] * b[2], 0)
        /\ allocated = Blank(b[1] * b[2], 0)
        /\ pc = "spawn"
        /\ spawned = 0
        /\ tasks = <<>>
        /\ image = <<>>
        /\ writers = Blank(b[1] * b[2], <<>>)
        /\ escapes = Blank(b[1] * b[2], None)
        /\ points = Blank(b[1] * b[2], CZero)

\* One iteration of the for loop: spawner.spawn of the next band's render.
Spawn ==
    /\ pc = "spawn"
    /\ spawned < NumBands(bounds, threads)
    /\ tasks' = Append(tasks,
                       BandTask(bounds, upper_left, lower_right, threads, spawned))
    /\ spawned' = spawned + 1
    /\ UNCHANGED <<bounds, upper_left, lower_right, threads, pixels, allocated,
                   pc, image, writers, escapes, points>>

\* A task enters render: the length assertion, and the loops' first test.
RenderEnter(i) ==
    /\ tasks[i].state = "spawned"
    /\ tasks' = [tasks EXCEPT ![i].state =
                    IF ~LenAsserted(tasks[i].len, tasks[i].bounds) THEN "panicked"
                    ELSE IF tasks[i].bounds[1] * tasks[i].bounds[2] = 0 THEN "done"
                    ELSE "running"]
    /\ UNCHANGED <<bounds, upper_left, lower_right, threads, pixels, allocated,
                   pc, spawned, image, writers, escapes, points>>

\* A task runs the loop body for its (column, row): maps the pixel, computes
\* its escape time and assigns the byte; the slice index is bounds-checked.
RenderPixel(i) ==
    LET t     == tasks[i]
        idx   == PixelIndex(t.bounds, t.row, t.column)
        point == pixel_to_point(t.bounds, <<t.column, t.row>>,
                                t.upper_left, t.lower_right)
        count == EscapeTimes[point]
        k     == t.lo + idx + 1
        endOfRow == t.column + 1 = t.bounds[1]
    IN  /\ t.state = "running"
        /\ IF idx >= t.len
           THEN /\ tasks' = [tasks EXCEPT ![i].state = "panicked"]
                /\ UNCHANGED <<pixels, writers, escapes, points>>
           ELSE /\ pixels' = [pixels EXCEPT ![k] = PixelByte(count)]
                /\ writers' = [writers EXCEPT ![k] = Append(@, i)]
                /\ escapes' = [escapes EXCEPT ![k] = count]
                /\ points' = [points EXCEPT ![k] = point]
                /\ tasks' = [tasks EXCEPT
                       ![i].column = IF endOfRow THEN 0 ELSE t.column + 1,
                       ![i].row    = IF endOfRow THEN t.row + 1 ELSE t.row,
                       ![i].state  = IF endOfRow /\ t.row + 1 = t.bounds[2]
                                     THEN "done" ELSE "running"]
        /\ UNCHANGED <<bounds, upper_left, lower_right, threads, allocated, pc,
                       spawned, image>>

\* A scope that does not wait for its threads.
ScopeNeverWaits(ts) == TRUE

\* crossbeam::scope returns once every thread spawned in it has ended.
ScopeJoined(ts) == \A i \in 1 .. Len(ts) : ts[i].state \in {"done", "panicked"}

\* The end of the scope: all bands spawned, all tasks joined; a panicked
\* task's panic is the scope's.
Join ==
    /\ pc = "spawn"
    /\ spawned = NumBands(bounds, threads)
    /\ ScopeJoined(tasks)
    /\ pc' = IF \E i \in 1 .. Len(tasks) : tasks[i].state = "panicked"
             THEN "panicked" ELSE "write"
    /\ UNCHANGED <<bounds, upper_left, lower_right, threads, pixels, allocated,
                   spawned, tasks, image, writers, escapes, points>>

\* write_image(&args[1], &pixels, bounds): the encoder reads the buffer.
WriteImage ==
    /\ pc = "write"
    /\ image' = pixels
    /\ pc' = "done"
    /\ UNCHANGED <<bounds, upper_left, lower_right, threads, pixels, allocated,
                   spawned, tasks, writers, escapes, points>>

Next ==
    \/ Spawn
    \/ \E i \in 1 .. Len(tasks) : RenderEnter(i)
    \/ \E i \in 1 .. Len(tasks) : RenderPixel(i)
    \/ Join
    \/ WriteImage

Spec == Init /\ [][Next]_vars

\* render called on its own with a view of any length and any contents: one
\* task, whose view is the whole buffer.
InitRender ==
    \E len \in 0 .. MaxWidth * MaxHeight + 1, b \in ImageBounds, w \in Windows,
       fill \in {0, 200} :
        /\ bounds = b
        /\ upper_left = w[1]
        /\ lower_right = w[2]
        /\ threads = 1
        /\ pixels = Blank(len, fill)
        /\ allocated = Blank(len, fill)
        /\ pc = "call"
        /\ spawned = 1
        /\ tasks = << [ state |-> "spawned", lo |-> 0, len |-> len, bounds |-> b,
                        upper_left |-> w[1], lower_right |-> w[2],
                        row |-> 0, column |-> 0 ] >>
        /\ image = <<>>
        /\ writers = Blank(len, <<>>)
        /\ escapes = Blank(len, None)
        /\ points = Blank(len, CZero)

NextRender ==
    \/ RenderEnter(1)
    \/ RenderPixel(1)

SpecRender == InitRender /\ [][NextRender]_vars

\* ------------------------------------------------------------ the claims
AllSpawned == spawned = NumBands(bounds, threads)

AllFinished == AllSpawned /\ \A i \in 1 .. Len(tasks) : tasks[i].state = "done"

Written(k) == writers[k] # <<>>

\* C1: the buffer save_fractal's banded render hands to write_image equals,
\* byte for byte, the buffer of one render call over the whole image.
C1_BandedEqualsWhole ==
    pc = "done" => image = RenderWhole(bounds, upper_left, lower_right)

\* C2: the views of any two tasks are disjoint index ranges, no index is
\* ever assigned twice, and once all tasks have finished every index of the
\* buffer has been assigned exactly once, by one task.
C2_DisjointWrittenOnce ==
    /\ \A i, j \in 1 .. Len(tasks) :
          i # j => \/ tasks[i].lo + tasks[i].len <= tasks[j].lo
                   \/ tasks[j].lo + tasks[j].len <= tasks[i].lo
    /\ \A k \in 1 .. Len(pixels) : Len(writers[k]) <= 1
    /\ AllFinished => \A k \in 1 .. bounds[1] * bounds[2] : Len(writers[k]) = 1

C2_Witness ==
    /\ AllFinished
    /\ Len(tasks) >= 2
    /\ \E k \in 1 .. Len(pixels) : writers[k] = <<1>>
    /\ \E k \in 1 .. Len(pixels) : writers[k] = <<2>>

\* C3: write_image reads the buffer only once every band is spawned and every
\* task has ended, and from then on no buffer index is assigned.
C3_JoinBarrier ==
    /\ [](pc \in {"write", "done"} => AllFinished)
    /\ [](pc = "done" => image = pixels)
    /\ [][(pc \in {"write", "done"}) => (pixels' = pixels /\ writers' = writers)]_vars

C3_Witness ==
    /\ pc = "done"
    /\ Len(tasks) >= 2
    /\ image = pixels
    /\ \A k \in 1 .. Len(pixels) : Written(k)

\* C4: with rowsPerBand = height \div T + 1, band i (from 0) starts at row
\* rowsPerBand * i, the bands follow one another, every band but the last has
\* rowsPerBand rows, the last has 1 .. rowsPerBand, the rows sum to height
\* and there are at most T bands.
C4_Partition ==
    LET rowsPerBand == bounds[2] \div threads + 1
        rows(i) == tasks[i].len \div bounds[1]
    IN  /\ Len(tasks) <= threads
        /\ \A i \in 1 .. Len(tasks) :
              /\ tasks[i].lo = rowsPerBand * (i - 1) * bounds[1]
              /\ tasks[i].len = rows(i) * bounds[1]
              /\ rows(i) \in 1 .. rowsPerBand
              /\ i < Len(tasks) => /\ rows(i) = rowsPerBand
                                   /\ tasks[i + 1].lo = tasks[i].lo + tasks[i].len
        /\ pc \in {"write", "done"} /\ tasks # <<>> =>
              tasks[Len(tasks)].lo + tasks[Len(tasks)].len = bounds[1] * bounds[2]
        /\ pc \in {"write", "done"} /\ tasks = <<>> => bounds[2] = 0

C4_Witness ==
    /\ pc = "done"
    /\ Len(tasks) >= 2
    /\ tasks[Len(tasks)].len < tasks[1].len

CeilDiv(n, d) == (n + d - 1) \div d

\* C5, as claimed: every band but the last has ceil(height / T) rows and the
\* last band has no more than that.
C5_RowsAreCeil ==
    pc \in {"write", "done"} =>
        \A i \in 1 .. Len(tasks) :
            /\ i < Len(tasks) =>
                  tasks[i].len \div bounds[1] = CeilDiv(bounds[2], threads)
            /\ i = Len(tasks) =>
                  tasks[i].len \div bounds[1] <= CeilDiv(bounds[2], threads)

\* C5, amended: every band but the last has floor(height / T) + 1 rows, which
\* is ceil(height / T) when T does not divide height and one more when it
\* does, and the last band has no more than floor(height / T) + 1.
C5_RowsAreFloorPlusOne ==
    LET fixed == bounds[2] \div threads + 1
    IN  /\ fixed = CeilDiv(bounds[2], threads)
                   + (IF bounds[2] % threads = 0 THEN 1 ELSE 0)
        /\ pc \in {"write", "done"} =>
              \A i \in 1 .. Len(tasks) :
                  /\ i < Len(tasks) => tasks[i].len \div bounds[1] = fixed
                  /\ i = Len(tasks) => tasks[i].len \div bounds[1] <= fixed

C5_Witness ==
    /\ pc = "done"
    /\ Len(tasks) >= 2
    /\ bounds[2] % threads = 0

\* re^2 + im^2 > 4, exactly.
SqModGt4(c) ==
    IF FGt(FAbs(c[1]), Four) \/ FGt(FAbs(c[2]), Four) THEN TRUE
    ELSE SumSqGt(FAbs(c[1]), FAbs(c[2]), 2 ^ (2 * Precision - 2))

\* C6: a point whose squared modulus exceeds 4 has escape index 0.
C6_EscapesAtOnce ==
    \A k \in 1 .. Len(pixels) :
        Written(k) /\ SqModGt4(points[k]) => escapes[k] = 0

\* C7: every byte assigned is 0 for a point that did not escape and 255 - i
\* for escape index i, where 0 <= i <= 254, so it is in 1 .. 255.
C7_ByteOfEscape ==
    \A k \in 1 .. Len(pixels) :
        Written(k) =>
            /\ escapes[k] \in {None} \cup (0 .. 254)
            /\ pixels[k] \in 0 .. 255
            /\ escapes[k] = None => pixels[k] = 0
            /\ escapes[k] # None =>
                  pixels[k] = 255 - escapes[k] /\ pixels[k] \in 1 .. 255

C7_Witness ==
    /\ \E k \in 1 .. Len(pixels) :
          Written(k) /\ escapes[k] = None /\ pixels[k] = 0
    /\ \E k \in 1 .. Len(pixels) :
          Written(k) /\ escapes[k] >= 1 /\ pixels[k] = 255 - escapes[k]

\* Exact arithmetic on dyadics <<m, e>> (not rounded, any significand).
DyAdd(a, b) ==
    LET e == Min(a[2], b[2])
    IN  <<a[1] * 2 ^ (a[2] - e) + b[1] * 2 ^ (b[2] - e), e>>

DyLeq(a, b) ==
    LET e == Min(a[2], b[2])
    IN  a[1] * 2 ^ (a[2] - e) <= b[1] * 2 ^ (b[2] - e)

\* |got - want| <= 8 * 2^-Precision * (|from| + |want|): got is want up to
\* the rounding of the mapper's four operations.
WithinRounding(got, want, from) ==
    LET d == FAbs(DyAdd(got, FNeg(want)))
    IN  DyLeq(<<d[1], d[2] + Precision - 3>>, DyAdd(FAbs(from), FAbs(want)))

FarCorner == pixel_to_point(bounds, bounds, upper_left, lower_right)

NearCorner == pixel_to_point(bounds, <<0, 0>>, upper_left, lower_right)

\* What save_fractal got from the mapper for (0, 0), the first band's
\* upper-left corner, and for (width, height), the last band's lower-right.
FirstCorner == tasks[1].upper_left

LastCorner == tasks[Len(tasks)].lower_right

\* bounds (100,100), pixel (25,75), window (-1,1) .. (1,-1) gives (-0.5,-0.5)
MapperExample ==
    pixel_to_point(<<100, 100>>, <<25, 75>>,
                   <<IntToF(-1), IntToF(1)>>, <<IntToF(1), IntToF(-1)>>)
        = <<Dec(-5), Dec(-5)>>

C9_FailsFast ==
    \A i \in 1 .. Len(tasks) :
        tasks[i].len # tasks[i].bounds[1] * tasks[i].bounds[2] =>
            /\ tasks[i].state \in {"spawned", "panicked"}
            /\ pixels = allocated
            /\ \A k \in 1 .. Len(pixels) : ~Written(k)

C9_Witness ==
    /\ tasks[1].state = "panicked"
    /\ tasks[1].len > tasks[1].bounds[1] * tasks[1].bounds[2]
    /\ tasks[1].bounds[2] >= 1
    /\ pixels = allocated

\* C10: every band handed to render is whole rows, its bounds are
\* (width, len / width) and its length is their product, so the assertion
\* holds in every task and neither a task nor the scope panics.
C10_AssertionHolds ==
    /\ pc # "panicked"
    /\ \A i \in 1 .. Len(tasks) :
          /\ tasks[i].len % bounds[1] = 0
          /\ tasks[i].bounds = <<bounds[1], tasks[i].len \div bounds[1]>>
          /\ tasks[i].len = tasks[i].bounds[1] * tasks[i].bounds[2]
          /\ tasks[i].state # "panicked"

C10_Witness ==
    /\ Len(tasks) >= 2
    /\ tasks[Len(tasks)].state = "done"
    /\ tasks[Len(tasks)].len < tasks[1].len
    /\ AllSpawned

====
